---- MODULE Spec2Model ----
(***************************************************************************)
(* Two-stage similarity grouping of scripts/find_similar_questions.py.     *)
(*                                                                         *)
(* Records are the entries of the questions list.  Python positions are    *)
(* 0-based; here a list is a TLA+ sequence, so position p of the source is *)
(* position p + 1 of the model.  The bi-encoder + HDBSCAN and the          *)
(* cross-encoder are external: their outputs are drawn from bounded sets   *)
(* for exactly the calls the code makes.  Scores and thresholds are        *)
(* integers on one scale (0..MaxScore stands for the interval [0, 1]).     *)
(***************************************************************************)
EXTENDS Integers, Sequences, FiniteSets, TLC

\* ------------------------------------------------------------------ bounds
NumRecords == 5
MaxClusters == 2
MaxScore == 1
MaxUnusual == 1

Records == 1..NumRecords
Scores == 0..MaxScore
Thresholds == 0..MaxScore
ClusterLabels == -1..(MaxClusters - 1)

\* ------------------------------------------------------------- JSON values
\* Python None (also: the key is absent, which q.get() reads as None).
None == "None"
\* A question_text that is JSON null.
Null == <<"null">>

\* Texts are sequences of characters.
EmptyText == << >>
SomeText == <<"q">>
Whitespace == {" ", "\t", "\n"}

RECURSIVE lstrip(_)
lstrip(text) ==
    IF text # << >> /\ Head(text) \in Whitespace THEN lstrip(Tail(text)) ELSE text

RECURSIVE rstrip(_)
rstrip(text) ==
    IF text # << >> /\ text[Len(text)] \in Whitespace
    THEN rstrip(SubSeq(text, 1, Len(text) - 1))
    ELSE text

\* str.strip()
strip(text) == rstrip(lstrip(text))

\* Python truthiness of a label read with q.get("similarity_group_id").
Truthy(label) == label # None /\ label # ""

\* Variant: the cluster_id counter is never advanced past 1.
SimGroupLabelFirst(cluster_id) == "sim_group_" \o ToString(1)

\* f"sim_group_{cluster_id}"
SimGroupLabel(cluster_id) == "sim_group_" \o ToString(cluster_id)

\* Variant: the sub-label leaves out the original label.
SubLabelBare(group_id, sub_group_num) == "sub" \o ToString(sub_group_num)

\* f"{group_id}_sub{sub_group_num}"
SubLabel(group_id, sub_group_num) == group_id \o "_sub" \o ToString(sub_group_num)

\* ----------------------------------------------------------------- helpers
Min(S) == CHOOSE x \in S : \A y \in S : x <= y
Max(S) == CHOOSE x \in S : \A y \in S : x >= y

Range(s) == {s[i] : i \in DOMAIN s}

\* The elements of a set of integers, ascending (the order in which
\* enumerate() and range() meet them).
RECURSIVE Ascending(_)
Ascending(S) == IF S = {} THEN << >> ELSE <<Min(S)>> \o Ascending(S \ {Min(S)})

\* ------------------------------------------------------------------- state
VARIABLES
    questions,      \* the list of question dicts
    cross_encoder,  \* TRUE when main() loaded a cross-encoder, FALSE for None
    pc,             \* position of main(): "loaded", "stage1", "stage2", "raised";
                    \* "stage2again" after a second run_stage2, "refining"
                    \* while concurrent invocations refine the groups
    groups_split,   \* run_stage2's count of groups split
    groups_kept,    \* run_stage2's count of groups kept as-is
    before,         \* history: the labels at entry of run_stage2
    observed,       \* history: arguments and collaborator answers of the stage
                    \* that ran last, kept only by the Observe actions
    invocations     \* the concurrent invocations that each refine one group:
                    \* their group, position and local variables

vars == <<questions, cross_encoder, pc, groups_split, groups_kept, before, observed,
          invocations>>

\* the value of observed when nothing is kept
NotObserved == [none |-> TRUE]

\* the similarity_group_id of every record, in order
Labels(qs) == [idx \in DOMAIN qs |-> qs[idx].similarity_group_id]

Question(success, data, text, label) ==
    [success |-> success, data |-> data, question_text |-> text,
     similarity_group_id |-> label]

\* question.get("data", {}).get("question_text", "")
get_question_text(question) ==
    IF question.data THEN question.question_text ELSE EmptyText

\* ---------------------------------------------- Stage 1: candidate clusters
\* Variant: records that already carry a label are not processed again.
questions_with_indices_unlabelled(qs) ==
    Ascending({idx \in DOMAIN qs :
                 qs[idx].success /\ qs[idx].data
                   /\ ~Truthy(qs[idx].similarity_group_id)})

\* run_stage1's filter: q.get("success") and q.get("data")
questions_with_indices(qs) ==
    Ascending({idx \in DOMAIN qs : qs[idx].success /\ qs[idx].data})

\* text.strip() raises AttributeError on None
StripRaises(qs) ==
    \E idx \in Range(questions_with_indices(qs)) : get_question_text(qs[idx]) = Null

\* original_indices: positions of the records with non-blank text
original_indices(qs) ==
    Ascending({idx \in Range(questions_with_indices(qs)) :
                 strip(get_question_text(qs[idx])) # << >>})

\* The keys of the clusters dict in insertion order: the non-noise labels
\* in order of first occurrence in cluster_labels.
RECURSIVE ClusterKeys(_, _, _)
ClusterKeys(cluster_labels, i, seen) ==
    IF i > Len(cluster_labels) THEN << >>
    ELSE IF cluster_labels[i] >= 0 /\ cluster_labels[i] \notin seen
         THEN <<cluster_labels[i]>>
                \o ClusterKeys(cluster_labels, i + 1, seen \cup {cluster_labels[i]})
         ELSE ClusterKeys(cluster_labels, i + 1, seen)

\* clusters[label]: local positions with that label, ascending
ClusterMembers(cluster_labels, label) ==
    Ascending({i \in 1..Len(cluster_labels) : cluster_labels[i] = label})

\* clusters.items() as a sequence of member lists
Clusters(cluster_labels) ==
    LET keys == ClusterKeys(cluster_labels, 1, {})
    IN  [k \in 1..Len(keys) |-> ClusterMembers(cluster_labels, keys[k])]

\* What fit_predict can return for n points: -1 for noise, and cluster
\* labels 0..k-1 with every label used.
ClusterOutcomes(n) ==
    {cl \in [1..n -> ClusterLabels] :
        \A c \in ClusterLabels : c > 0 => (c \in Range(cl) => (c - 1) \in Range(cl))}

\* Variant: every pair i < j is formed, whatever the window.
PairIndicesUnbounded(n, window) == {p \in (1..n) \X (1..n) : p[1] < p[2]}

\* ------------------------------------------------- verification by scoring
\* The pairs (i, j) of local positions handed to cross_encoder.predict:
\* j in range(i + 1, min(len(members), i + window + 1)).
PairIndices(n, window) ==
    {p \in (1..n) \X (1..n) : p[1] < p[2] /\ p[2] <= p[1] + window}

\* Variant: the comparison is strict (score > threshold).
AdjacencyStrict(members, ids, pair_indices, score, threshold) ==
    [i \in 1..Len(members) |->
        {j \in 1..Len(members) :
            \/ /\ <<i, j>> \in pair_indices
               /\ score[<<ids[members[i]], ids[members[j]]>>] > threshold
            \/ /\ <<j, i>> \in pair_indices
               /\ score[<<ids[members[j]], ids[members[i]]>>] > threshold}]

\* Variant: the comparison is inverted (score <= threshold).
AdjacencyInverted(members, ids, pair_indices, score, threshold) ==
    [i \in 1..Len(members) |->
        {j \in 1..Len(members) :
            \/ /\ <<i, j>> \in pair_indices
               /\ score[<<ids[members[i]], ids[members[j]]>>] <= threshold
            \/ /\ <<j, i>> \in pair_indices
               /\ score[<<ids[members[j]], ids[members[i]]>>] <= threshold}]

\* Variant: an edge is added for a pair scoring below the threshold.
AdjacencyBelow(members, ids, pair_indices, score, threshold) ==
    [i \in 1..Len(members) |->
        {j \in 1..Len(members) :
            \/ /\ <<i, j>> \in pair_indices
               /\ score[<<ids[members[i]], ids[members[j]]>>] < threshold
            \/ /\ <<j, i>> \in pair_indices
               /\ score[<<ids[members[j]], ids[members[i]]>>] < threshold}]

\* adjacency[i]: score >= threshold adds j to adjacency[i] and i to adjacency[j].
\* score is keyed by the records of the pair, ids[members[i]] first.
Adjacency(members, ids, pair_indices, score, threshold) ==
    [i \in 1..Len(members) |->
        {j \in 1..Len(members) :
            \/ /\ <<i, j>> \in pair_indices
               /\ score[<<ids[members[i]], ids[members[j]]>>] >= threshold
            \/ /\ <<j, i>> \in pair_indices
               /\ score[<<ids[members[j]], ids[members[i]]>>] >= threshold}]

\* "if node in visited: continue": the queue entries that are popped and
\* skipped change nothing, so they are dropped from the queue at once.
Unvisited(queue, visited) == SelectSeq(queue, LAMBDA node : node \notin visited)

\* The while-queue loop: pop the head, skip a visited node, else visit it,
\* append members[node] to the component and extend the queue with its
\* unvisited neighbours.  r is (visited, component); pending is the queue
\* without its visited entries.
RECURSIVE BFS(_, _, _, _)
BFSPending(pending, r, adjacency, members) ==
    IF pending = << >> THEN r
    ELSE BFS(Tail(pending)
               \o Ascending(adjacency[Head(pending)] \ (r.visited \cup {Head(pending)})),
             [visited |-> r.visited \cup {Head(pending)},
              component |-> Append(r.component, members[Head(pending)])],
             adjacency, members)

BFS(queue, r, adjacency, members) ==
    BFSPending(Unvisited(queue, r.visited), r, adjacency, members)

\* verified map with the entries of one component set to label
Assign(verified, ids, component, label) ==
    [idx \in DOMAIN verified |->
        IF \E k \in 1..Len(component) : ids[component[k]] = idx
        THEN label ELSE verified[idx]]

\* "for start in range(len(members))" of Stage 1: a start that is visited or
\* has no neighbour is skipped.
RECURSIVE Stage1Starts(_, _, _, _, _, _, _)
Stage1Starts(start, visited, cluster_id, verified, members, adjacency, ids) ==
    IF start > Len(members) THEN [cluster_id |-> cluster_id, verified |-> verified]
    ELSE IF start \in visited \/ adjacency[start] = {}
    THEN Stage1Starts(start + 1, visited, cluster_id, verified, members, adjacency, ids)
    ELSE LET r == BFS(<<start>>, [visited |-> visited, component |-> << >>],
                      adjacency, members)
         IN  IF Len(r.component) >= 2
             THEN Stage1Starts(start + 1, r.visited, cluster_id + 1,
                      Assign(verified, ids, r.component, SimGroupLabel(cluster_id + 1)),
                      members, adjacency, ids)
             ELSE Stage1Starts(start + 1, r.visited, cluster_id, verified,
                      members, adjacency, ids)

\* "for label, members in clusters.items()" with the cross-encoder
RECURSIVE Stage1Verified(_, _, _, _, _, _, _)
Stage1Verified(k, cluster_id, verified, clusters, ids, score, threshold) ==
    IF k > Len(clusters) THEN verified
    ELSE LET members == clusters[k]
         IN  IF Len(members) < 2
             THEN Stage1Verified(k + 1, cluster_id, verified, clusters, ids, score, threshold)
             ELSE LET r == Stage1Starts(1, {}, cluster_id, verified, members,
                               Adjacency(members, ids,
                                         PairIndices(Len(members), Len(members)),
                                         score, threshold),
                               ids)
                  IN  Stage1Verified(k + 1, r.cluster_id, r.verified, clusters, ids,
                                     score, threshold)

\* Variant: every accepted cluster is given the first label.
RECURSIVE Stage1UnverifiedOneLabel(_, _, _, _, _)
Stage1UnverifiedOneLabel(k, cluster_id, verified, clusters, ids) ==
    IF k > Len(clusters) THEN verified
    ELSE IF Len(clusters[k]) >= 2
         THEN Stage1UnverifiedOneLabel(k + 1, cluster_id,
                  Assign(verified, ids, clusters[k], SimGroupLabel(1)),
                  clusters, ids)
         ELSE Stage1UnverifiedOneLabel(k + 1, cluster_id, verified, clusters, ids)

\* "for label, members in clusters.items()" without the cross-encoder
RECURSIVE Stage1Unverified(_, _, _, _, _)
Stage1Unverified(k, cluster_id, verified, clusters, ids) ==
    IF k > Len(clusters) THEN verified
    ELSE IF Len(clusters[k]) >= 2
         THEN Stage1Unverified(k + 1, cluster_id + 1,
                  Assign(verified, ids, clusters[k], SimGroupLabel(cluster_id + 1)),
                  clusters, ids)
         ELSE Stage1Unverified(k + 1, cluster_id, verified, clusters, ids)

\* The record pairs scored in Stage 1: every pair inside a cluster of >= 2.
Stage1Pairs(qs, cluster_labels) ==
    LET ids == original_indices(qs)
    IN  {<<ids[p[1]], ids[p[2]]>> : p \in
            {q \in (1..Len(cluster_labels)) \X (1..Len(cluster_labels)) :
                q[1] < q[2] /\ cluster_labels[q[1]] >= 0
                            /\ cluster_labels[q[1]] = cluster_labels[q[2]]}}

\* find_similarity_groups once the collaborators have answered; the result
\* maps every position to its label, None standing for "not in the dict".
find_similarity_groups(qs, cluster_labels, score, threshold, use_cross_encoder) ==
    LET ids == original_indices(qs)
        empty == [idx \in DOMAIN qs |-> None]
    IN  IF Len(ids) < 2 THEN empty
        ELSE IF use_cross_encoder
             THEN Stage1Verified(1, 0, empty, Clusters(cluster_labels), ids, score, threshold)
             ELSE Stage1Unverified(1, 0, empty, Clusters(cluster_labels), ids)

\* Variant: only the records in the map are written (additive assignment).
ApplyAssignmentsAdditive(qs, similarity_map) ==
    [idx \in DOMAIN qs |->
        IF similarity_map[idx] = None THEN qs[idx]
        ELSE [qs[idx] EXCEPT !.similarity_group_id = similarity_map[idx]]]

\* "question["similarity_group_id"] = similarity_map.get(idx)" for every idx
ApplyAssignments(qs, similarity_map) ==
    [idx \in DOMAIN qs |-> [qs[idx] EXCEPT !.similarity_group_id = similarity_map[idx]]]

\* --------------------------------------------- Stage 2: selecting groups
\* The keys of find_large_groups' groups dict in insertion order: the truthy
\* labels in order of first occurrence.
RECURSIVE GroupKeys(_, _, _)
GroupKeys(qs, idx, seen) ==
    IF idx > Len(qs) THEN << >>
    ELSE LET group_id == qs[idx].similarity_group_id
         IN  IF Truthy(group_id) /\ group_id \notin seen
             THEN <<group_id>> \o GroupKeys(qs, idx + 1, seen \cup {group_id})
             ELSE GroupKeys(qs, idx + 1, seen)

\* groups[group_id]: the positions carrying the label, ascending
GroupIndices(qs, group_id) ==
    Ascending({idx \in DOMAIN qs : qs[idx].similarity_group_id = group_id})

\* Variant: a group of exactly min_size members is selected too.
find_large_groups_inclusive(qs, min_size) ==
    LET keys == GroupKeys(qs, 1, {})
        all == [k \in 1..Len(keys) |->
                   [group_id |-> keys[k], indices |-> GroupIndices(qs, keys[k])]]
    IN  SelectSeq(all, LAMBDA g : Len(g.indices) >= min_size)

\* find_large_groups: the groups with more than min_size members, as the
\* sequence of (group_id, indices) that .items() yields
find_large_groups(qs, min_size) ==
    LET keys == GroupKeys(qs, 1, {})
        all == [k \in 1..Len(keys) |->
                   [group_id |-> keys[k], indices |-> GroupIndices(qs, keys[k])]]
    IN  SelectSeq(all, LAMBDA g : Len(g.indices) > min_size)

\* ------------------------------------------------ Stage 2: splitting a group
\* "for j in range(i + 1, min(len(members), i + 51))"
PairWindow == 50

\* try_split_group returns None
NoSplit == [is_none |-> TRUE, map |-> << >>]
\* try_split_group returns a dict position -> sub-group number
SplitInto(map) == [is_none |-> FALSE, map |-> map]

\* len(set(d.values()))
NumValues(map) == Cardinality({map[idx] : idx \in DOMAIN map})

\* dict d with d[indices[local_idx]] = value for every local_idx of component
AssignSub(assignments, indices, component, value) ==
    LET new == {indices[component[k]] : k \in 1..Len(component)}
    IN  [idx \in DOMAIN assignments \cup new |->
            IF idx \in new THEN value ELSE assignments[idx]]

\* "if len(component) >= 2": the component gets the next sub-group number.
\* acc is (visited, sub_group_counter, verified_assignments), r what the
\* traversal returned.
NumberComponent(acc, indices, r) ==
    IF Len(r.component) >= 2
    THEN [visited |-> r.visited,
          sub_group_counter |-> acc.sub_group_counter + 1,
          assignments |-> AssignSub(acc.assignments, indices, r.component,
                                    acc.sub_group_counter + 1)]
    ELSE [visited |-> r.visited,
          sub_group_counter |-> acc.sub_group_counter,
          assignments |-> acc.assignments]

\* "for start in range(len(members))" of Stage 2: only a visited start is
\* skipped; a component of one node is dropped after the traversal.
RECURSIVE Stage2Starts(_, _, _, _, _)
Stage2Starts(start, acc, members, adjacency, indices) ==
    IF start > Len(members) THEN acc
    ELSE IF start \in acc.visited
    THEN Stage2Starts(start + 1, acc, members, adjacency, indices)
    ELSE Stage2Starts(start + 1,
             NumberComponent(acc, indices,
                 BFS(<<start>>, [visited |-> acc.visited, component |-> << >>],
                     adjacency, members)),
             members, adjacency, indices)

\* "for label, members in clusters.items()" of try_split_group
RECURSIVE Stage2Verified(_, _, _, _, _, _)
Stage2Verified(k, acc, clusters, indices, score, threshold) ==
    IF k > Len(clusters) THEN acc.assignments
    ELSE IF Len(clusters[k]) < 2
    THEN Stage2Verified(k + 1, acc, clusters, indices, score, threshold)
    ELSE Stage2Verified(k + 1,
             Stage2Starts(1, [acc EXCEPT !.visited = {}], clusters[k],
                          Adjacency(clusters[k], indices,
                                    PairIndices(Len(clusters[k]), PairWindow),
                                    score, threshold),
                          indices),
             clusters, indices, score, threshold)

\* ---------------------------------------------------- hierarchical fallback
\* np.clip(x, 0, 1) on the integer scale
Clip(x) == IF x < 0 THEN 0 ELSE IF x > MaxScore THEN MaxScore ELSE x

\* dist_matrix[i, j] for local positions i # j: clip(1 - sim_matrix[i, j])
Distance(i, j, indices, score) ==
    Clip(MaxScore - (IF i < j THEN score[<<indices[i], indices[j]>>]
                              ELSE score[<<indices[j], indices[i]>>]))

\* The sum of dist_matrix over a set of position pairs (the distances are
\* integers 0..MaxScore, so the sum is d times the number of pairs at d).
RECURSIVE SumDistances(_, _, _, _)
SumDistances(pairs, indices, score, d) ==
    IF d = 0 THEN 0
    ELSE d * Cardinality({p \in pairs : Distance(p[1], p[2], indices, score) = d})
           + SumDistances(pairs, indices, score, d - 1)

\* The average-linkage cost of every pair of current clusters, kept as the
\* sum of the distances and the number of pairs of members.
AverageLinkage(clusters, indices, score) ==
    [p \in {q \in clusters \X clusters : Min(q[1]) < Min(q[2])} |->
        [sum |-> SumDistances(p[1] \X p[2], indices, score, MaxScore),
         size |-> Cardinality(p[1]) * Cardinality(p[2])]]

\* TRUE when pair p is merged no later than pair q: the averages are compared
\* exactly (sum_p * size_q against sum_q * size_p); among equal averages the
\* pair that comes first in position order is merged.
Closer(cost, p, q) ==
    \/ cost[p].sum * cost[q].size < cost[q].sum * cost[p].size
    \/ /\ cost[p].sum * cost[q].size = cost[q].sum * cost[p].size
       /\ \/ Min(p[1]) < Min(q[1])
          \/ Min(p[1]) = Min(q[1]) /\ Min(p[2]) <= Min(q[2])

\* The pair of clusters linkage merges next
ClosestPair(cost) == CHOOSE p \in DOMAIN cost : \A q \in DOMAIN cost : Closer(cost, p, q)

\* linkage(method='average') cut by fcluster(criterion='distance'): merge the
\* two clusters with the least average distance while that average is <= t.
RECURSIVE Agglomerate(_, _, _, _)
\* One merge, best being the closest pair and link its cost
MergeWithin(clusters, best, link, indices, score, t) ==
    IF link.sum > t * link.size THEN clusters
    ELSE Agglomerate((clusters \ {best[1], best[2]}) \cup {best[1] \cup best[2]},
                     indices, score, t)

MergeClosest(clusters, cost, best, indices, score, t) ==
    MergeWithin(clusters, best, cost[best], indices, score, t)

MergeNext(clusters, cost, indices, score, t) ==
    MergeClosest(clusters, cost, ClosestPair(cost), indices, score, t)

Agglomerate(clusters, indices, score, t) ==
    IF Cardinality(clusters) < 2 THEN clusters
    ELSE MergeNext(clusters, AverageLinkage(clusters, indices, score), indices, score, t)

\* The labels 1..k of the n local positions for the flat clusters; flat
\* clusters are numbered here in ascending order of their first member.
FlatLabels(n, flat) ==
    [i \in 1..n |->
        1 + Cardinality({c \in flat : Min(c) < Min(CHOOSE d \in flat : i \in d)})]

\* fcluster(linkage(...), t=1 - threshold, criterion='distance')
fcluster(n, indices, score, t) ==
    FlatLabels(n, Agglomerate({{i} : i \in 1..n}, indices, score, t))

\* assignments = {idx: label for idx, label in zip(indices, cluster_labels)}
ZipAssignments(indices, cluster_labels) ==
    [idx \in Range(indices) |->
        cluster_labels[CHOOSE i \in 1..Len(indices) : indices[i] = idx]]

\* Variant: clusters of one member are not discarded.
KeepEveryCluster(assignments) ==
    IF NumValues(assignments) <= 1 THEN NoSplit ELSE SplitInto(assignments)

\* "if len(unique_labels) <= 1: return None", group_counts, valid_groups and
\* filtered of try_split_with_cross_encoder
KeepValidGroups(assignments) ==
    LET group_counts == [l \in {assignments[idx] : idx \in DOMAIN assignments} |->
                            Cardinality({idx \in DOMAIN assignments : assignments[idx] = l})]
        valid_groups == {l \in DOMAIN group_counts : group_counts[l] >= 2}
        filtered == [idx \in {i \in DOMAIN assignments : assignments[i] \in valid_groups}
                        |-> assignments[idx]]
    IN  IF NumValues(assignments) <= 1 THEN NoSplit
        ELSE IF Cardinality(valid_groups) <= 1 THEN NoSplit
        ELSE IF NumValues(filtered) > 1 THEN SplitInto(filtered) ELSE NoSplit

\* Variant: clusters of one member are not discarded.
try_split_with_cross_encoder_keep_single(indices, score, threshold) ==
    IF Len(indices) < 4 THEN NoSplit
    ELSE KeepEveryCluster(ZipAssignments(indices,
             fcluster(Len(indices), indices, score, MaxScore - threshold)))

try_split_with_cross_encoder(indices, score, threshold) ==
    IF Len(indices) < 4 THEN NoSplit
    ELSE KeepValidGroups(ZipAssignments(indices,
             fcluster(Len(indices), indices, score, MaxScore - threshold)))

\* Variant: two fine clusters are still sent to the hierarchical fallback.
UsesFallbackUpToTwo(cluster_labels) ==
    Cardinality({l \in Range(cluster_labels) : l # -1}) <= 2

\* TRUE when try_split_group hands the group to try_split_with_cross_encoder:
\* len(set(cluster_labels) - {-1}) <= 1
UsesFallback(cluster_labels) ==
    Cardinality({l \in Range(cluster_labels) : l # -1}) <= 1

\* "return verified_assignments if len(set(...values())) > 1 else None"
MoreThanOne(verified_assignments) ==
    IF NumValues(verified_assignments) > 1
    THEN SplitInto(verified_assignments) ELSE NoSplit

\* try_split_group once the collaborators have answered; cluster_labels is
\* the fine fit_predict output for the members of indices, in order.
try_split_group(indices, cluster_labels, score, cross_encoder_threshold) ==
    IF Len(indices) < 4 THEN NoSplit
    ELSE IF UsesFallback(cluster_labels)
    THEN try_split_with_cross_encoder(indices, score, cross_encoder_threshold)
    ELSE MoreThanOne(Stage2Verified(1, [visited |-> {}, sub_group_counter |-> 0,
                                        assignments |-> << >>],
                                    Clusters(cluster_labels), indices,
                                    score, cross_encoder_threshold))

\* Variant: every record outside the mapping is cleared, in any group.
ApplySplitClearsOthers(qs, group_id, indices, map) ==
    [idx \in DOMAIN qs |->
        IF idx \in DOMAIN map
        THEN [qs[idx] EXCEPT !.similarity_group_id = SubLabel(group_id, map[idx])]
        ELSE [qs[idx] EXCEPT !.similarity_group_id = None]]

\* Variant: the members outside every sub-group keep the original label.
ApplySplitNoClear(qs, group_id, indices, map) ==
    [idx \in DOMAIN qs |->
        IF idx \in DOMAIN map
        THEN [qs[idx] EXCEPT !.similarity_group_id = SubLabel(group_id, map[idx])]
        ELSE qs[idx]]

\* The two write loops of run_stage2 for a group that is split.
ApplySplit(qs, group_id, indices, map) ==
    [idx \in DOMAIN qs |->
        IF idx \in DOMAIN map
        THEN [qs[idx] EXCEPT !.similarity_group_id = SubLabel(group_id, map[idx])]
        ELSE IF idx \in Range(indices)
        THEN [qs[idx] EXCEPT !.similarity_group_id = None]
        ELSE qs[idx]]

\* fine[idx]: the fine fit_predict label of record idx within its group
GroupClusterLabels(indices, fine) == [k \in 1..Len(indices) |-> fine[indices[k]]]

\* Variant: a group that is not split is not counted.
RefineGroupUncounted(acc, g, split_result) ==
    IF ~split_result.is_none /\ DOMAIN split_result.map # {}
       /\ NumValues(split_result.map) > 1
    THEN [questions |-> ApplySplit(acc.questions, g.group_id, g.indices,
                                   split_result.map),
          groups_split |-> acc.groups_split + 1,
          groups_kept |-> acc.groups_kept]
    ELSE acc

\* Variant: a group that is not split loses its label.
RefineGroupClearsKept(acc, g, split_result) ==
    IF ~split_result.is_none /\ DOMAIN split_result.map # {}
       /\ NumValues(split_result.map) > 1
    THEN [questions |-> ApplySplit(acc.questions, g.group_id, g.indices,
                                   split_result.map),
          groups_split |-> acc.groups_split + 1,
          groups_kept |-> acc.groups_kept]
    ELSE [questions |-> ApplySplit(acc.questions, g.group_id, g.indices, << >>),
          groups_split |-> acc.groups_split,
          groups_kept |-> acc.groups_kept + 1]

\* The body of run_stage2's loop for group g once try_split_group has
\* returned split_result; acc is (questions, groups_split, groups_kept).
RefineGroup(acc, g, split_result) ==
    IF ~split_result.is_none /\ DOMAIN split_result.map # {}
       /\ NumValues(split_result.map) > 1
    THEN [questions |-> ApplySplit(acc.questions, g.group_id, g.indices,
                                   split_result.map),
          groups_split |-> acc.groups_split + 1,
          groups_kept |-> acc.groups_kept]
    ELSE [acc EXCEPT !.groups_kept = acc.groups_kept + 1]

\* "for group_id, indices in large_groups.items()"
RECURSIVE RefineGroups(_, _, _, _, _, _)
RefineGroups(k, large_groups, acc, fine, score, threshold) ==
    IF k > Len(large_groups) THEN acc
    ELSE RefineGroups(k + 1, large_groups,
             RefineGroup(acc, large_groups[k],
                 IF Len(large_groups[k].indices) < 4 THEN NoSplit
                 ELSE try_split_group(large_groups[k].indices,
                          GroupClusterLabels(large_groups[k].indices, fine),
                          score, threshold)),
             fine, score, threshold)

\* Variant: after the pass the groups of 4 or more members are selected
\* anew and refined too, the sub-groups just created included.
run_stage2_reexamining(qs, large_groups, fine, score, refine_cross_encoder_threshold) ==
    RefineGroups(1,
        find_large_groups(
            RefineGroups(1, large_groups,
                         [questions |-> qs, groups_split |-> 0, groups_kept |-> 0],
                         fine, score, refine_cross_encoder_threshold).questions,
            3),
        RefineGroups(1, large_groups,
                     [questions |-> qs, groups_split |-> 0, groups_kept |-> 0],
                     fine, score, refine_cross_encoder_threshold),
        fine, score, refine_cross_encoder_threshold)

\* run_stage2 once the collaborators have answered
run_stage2(qs, large_groups, fine, score, refine_cross_encoder_threshold) ==
    RefineGroups(1, large_groups,
                 [questions |-> qs, groups_split |-> 0, groups_kept |-> 0],
                 fine, score, refine_cross_encoder_threshold)

\* The groups whose members are embedded and clustered: len(indices) >= 4
ClusteredGroups(large_groups) ==
    {large_groups[k].indices : k \in {j \in 1..Len(large_groups) :
                                          Len(large_groups[j].indices) >= 4}}

\* What the fine fit_predict calls of one run_stage2 can return: per
\* clustered group, -1 for noise and labels 0..k-1 with every label used.
\* An answer with at most one cluster is read only through
\* len(unique_labels) <= 1, so "all noise" and "one cluster of all members"
\* stand for every such answer.
FineOutcomes(large_groups) ==
    LET groups == ClusteredGroups(large_groups)
    IN  {fine \in [UNION {Range(indices) : indices \in groups} -> ClusterLabels] :
            \A indices \in groups :
                LET used == {fine[idx] : idx \in Range(indices)}
                IN  /\ \A c \in ClusterLabels : c > 0 => (c \in used => (c - 1) \in used)
                    /\ Cardinality(used \ {-1}) <= 1 => Cardinality(used) = 1}

\* The record pairs scored while splitting one group
GroupPairs(indices, cluster_labels) ==
    LET n == Len(indices)
    IN  IF UsesFallback(cluster_labels)
        THEN {<<indices[p[1]], indices[p[2]]>> : p \in PairIndices(n, n)}
        ELSE UNION {LET members == ClusterMembers(cluster_labels, l)
                    IN  {<<indices[members[p[1]]], indices[members[p[2]]]>> :
                            p \in PairIndices(Len(members), PairWindow)}
                    : l \in {c \in Range(cluster_labels) : c >= 0}}

\* The record pairs scored by one run_stage2
Stage2Pairs(large_groups, fine) ==
    UNION {GroupPairs(indices, GroupClusterLabels(indices, fine))
           : indices \in ClusteredGroups(large_groups)}

\* ------------------------------------------------------------------ inputs
\* A collection is a fresh questions.json (no labels), or the output of an
\* earlier run fed back in (labels of that run, "" included); at most
\* MaxUnusual of its records lack a usable text payload.
EarlierLabels == <<"sim_group_1_sub1", "sim_group_1_sub1", "sim_group_2", "sim_group_2", "">>

PriorLabel(earlier, idx) ==
    IF earlier /\ idx <= Len(EarlierLabels) THEN EarlierLabels[idx] ELSE None

\* The shapes of a record without a usable text payload: success false,
\* data absent, question_text empty, whitespace-only, or null.
UnusableShapes ==
    {<<FALSE, TRUE, SomeText>>, <<TRUE, FALSE, EmptyText>>, <<TRUE, TRUE, EmptyText>>,
     <<TRUE, TRUE, <<" ", "\n">> >>, <<TRUE, TRUE, Null>>}

InputCollections ==
    UNION {UNION {{[idx \in 1..n |->
                      IF idx \in DOMAIN shape
                      THEN Question(shape[idx][1], shape[idx][2], shape[idx][3],
                                    PriorLabel(earlier, idx))
                      ELSE Question(TRUE, TRUE, SomeText, PriorLabel(earlier, idx))]
                   : shape \in UNION {[unusable -> UnusableShapes]
                                      : unusable \in {u \in SUBSET (1..n) :
                                                        Cardinality(u) <= MaxUnusual}}}
                  : earlier \in BOOLEAN}
           : n \in 0..NumRecords}

Init ==
    /\ questions \in InputCollections
    /\ cross_encoder \in BOOLEAN
    /\ pc = "loaded"
    /\ groups_split = 0
    /\ groups_kept = 0
    /\ before = << >>
    /\ observed = NotObserved
    /\ invocations = << >>

\* ------------------------------------------------------------------ stages
\* What the coarse fit_predict call can return; no call is made with fewer
\* than 2 non-blank texts.
CoarseOutcomes(qs) ==
    IF Len(original_indices(qs)) < 2 THEN {<< >>}
    ELSE ClusterOutcomes(Len(original_indices(qs)))

\* run_stage1 as main() calls it (use_cross_encoder = a cross-encoder is
\* loaded); the threshold is --cross-encoder-threshold.
Stage1(observe) ==
    /\ pc = "loaded"
    /\ UNCHANGED <<cross_encoder, groups_split, groups_kept, before, invocations>>
    /\ IF questions_with_indices(questions) # << >> /\ StripRaises(questions)
       THEN pc' = "raised" /\ UNCHANGED questions /\ observed' = NotObserved
       ELSE /\ pc' = "stage1"
            /\ \E cross_encoder_threshold \in Thresholds :
               \E cluster_labels \in CoarseOutcomes(questions) :
               \E score \in [(IF cross_encoder THEN Stage1Pairs(questions, cluster_labels)
                              ELSE {}) -> Scores] :
                  /\ questions' = ApplyAssignments(questions,
                         find_similarity_groups(questions, cluster_labels, score,
                                                cross_encoder_threshold, cross_encoder))
                  /\ observed' = IF observe
                                 THEN [labels_before |-> Labels(questions),
                                       encoded |-> original_indices(questions),
                                       cross_encoder_threshold |-> cross_encoder_threshold,
                                       cluster_labels |-> cluster_labels,
                                       score |-> score]
                                 ELSE NotObserved

RunStage1 == Stage1(FALSE)

ObserveStage1 == Stage1(TRUE)

\* --refine-threshold values: 2 and one that no group exceeds
SizeThresholds == {2, NumRecords}

\* run_stage2 as main() calls it: after Stage 1, unless --no-refine is given
\* or no cross-encoder is loaded.
Stage2(observe) ==
    /\ pc = "stage1"
    /\ cross_encoder
    /\ pc' = "stage2"
    /\ before' = Labels(questions)
    /\ UNCHANGED <<cross_encoder, invocations>>
    /\ \E refine_threshold \in SizeThresholds :
       \E refine_cross_encoder_threshold \in Thresholds :
       \E large_groups \in {find_large_groups(questions, refine_threshold)} :
       \E fine \in FineOutcomes(large_groups) :
       \E score \in [Stage2Pairs(large_groups, fine) -> Scores] :
       \E r \in {run_stage2(questions, large_groups, fine, score,
                            refine_cross_encoder_threshold)} :
           /\ questions' = r.questions
           /\ groups_split' = r.groups_split
           /\ groups_kept' = r.groups_kept
           /\ observed' = IF observe
                          THEN [refine_threshold |-> refine_threshold,
                                refine_cross_encoder_threshold |->
                                    refine_cross_encoder_threshold,
                                fine |-> fine,
                                score |-> score]
                          ELSE NotObserved

RunStage2 == Stage2(FALSE)

ObserveStage2 == Stage2(TRUE)

\* main(): Stage 1, then Stage 2
Next == RunStage1 \/ RunStage2

Spec == Init /\ [][Next]_vars

\* Stage 1 with the collaborators' answers kept
NextStage1 == ObserveStage1

SpecStage1 == Init /\ [][NextStage1]_vars

\* main() with the collaborators' answers of Stage 2 kept
NextStage2 == RunStage1 \/ ObserveStage2

SpecStage2 == Init /\ [][NextStage2]_vars

\* ---------------------------------------------------- collaborator failures
\* bi_encoder.encode or cross_encoder.predict raises.  Neither stage nor
\* main() has a handler, so the exception leaves the stage and the program.
\* Variant: the exception is swallowed and the stage reports completion.
AfterFailureSwallowed(stage) == stage

\* The position of main() after an exception raised inside stage
AfterFailure(stage) == "raised"

\* The calls of find_similarity_groups that can raise: encode, and in
\* verified mode the predict call of the k-th cluster of 2 or more members.
Stage1Calls(cluster_labels) ==
    {<<"encode", 0>>}
      \cup (IF cross_encoder
            THEN {<<"predict", k>> :
                     k \in 1..Cardinality({c \in 1..Len(Clusters(cluster_labels)) :
                                             Len(Clusters(cluster_labels)[c]) >= 2})}
            ELSE {})

\* run_stage1 when a collaborator raises: the assignments are written only
\* after find_similarity_groups has returned, so no label is written.
Stage1Fails ==
    /\ pc = "loaded"
    /\ ~StripRaises(questions)
    /\ Len(original_indices(questions)) >= 2
    /\ UNCHANGED <<questions, cross_encoder, groups_split, groups_kept, invocations>>
    /\ before' = Labels(questions)
    /\ pc' = AfterFailure("stage1")
    /\ \E cluster_labels \in CoarseOutcomes(questions) :
       \E call \in Stage1Calls(cluster_labels) :
           observed' = [failed |-> call[1], stage |-> "stage1", at |-> call[2]]

\* Variant: the failure undoes the iterations that have ended.
ProcessedBeforeFailureUndone(large_groups, k) == << >>

\* The groups whose loop iteration has ended when try_split_group raises for
\* the k-th group
ProcessedBeforeFailure(large_groups, k) == SubSeq(large_groups, 1, k - 1)

\* run_stage2 when a collaborator raises while group k is being split: the
\* groups before k have been processed, group k and the later ones have not,
\* and the counts are never printed.
Stage2Fails ==
    /\ pc = "stage1"
    /\ cross_encoder
    /\ pc' = AfterFailure("stage2")
    /\ before' = Labels(questions)
    /\ UNCHANGED <<cross_encoder, groups_split, groups_kept, invocations>>
    /\ \E refine_threshold \in SizeThresholds :
       \E refine_cross_encoder_threshold \in Thresholds :
       \E large_groups \in {find_large_groups(questions, refine_threshold)} :
       \E k \in {j \in 1..Len(large_groups) : Len(large_groups[j].indices) >= 4} :
       \E done \in {ProcessedBeforeFailure(large_groups, k)} :
       \E fine \in FineOutcomes(done) :
       \E score \in [Stage2Pairs(done, fine) -> Scores] :
       \E call \in {"encode", "predict"} :
           /\ questions' = run_stage2(questions, done, fine, score,
                                      refine_cross_encoder_threshold).questions
           /\ observed' = [failed |-> call, stage |-> "stage2", at |-> k,
                           refine_threshold |-> refine_threshold,
                           refine_cross_encoder_threshold |->
                               refine_cross_encoder_threshold,
                           fine |-> fine,
                           score |-> score]

\* main() with collaborators that may raise
NextFailing == RunStage1 \/ RunStage2 \/ Stage1Fails \/ Stage2Fails

SpecFailing == Init /\ [][NextFailing]_vars

\* ------------------------------------------------ run_stage2 applied twice
\* run_stage2 on collections of RefineRecords records as run_stage1 leaves
\* them, and then once more on its own output, with a deterministic scorer.
RefineRecords == 6

\* A deterministic pairwise scorer over all record pairs: the top score for
\* records at most reach positions apart, the bottom score otherwise.
NearScorers ==
    {[pair \in {p \in (1..RefineRecords) \X (1..RefineRecords) : p[1] < p[2]} |->
         IF pair[2] - pair[1] <= reach THEN MaxScore ELSE 0]
     : reach \in 0..(RefineRecords - 1)}

\* Group numbers per record (0 for no group) when every group of Stage 1 is
\* a run of at least 2 consecutive records, numbered in order, followed by
\* the records without a group.
BlockLabelings ==
    {g \in [1..RefineRecords -> 0..(RefineRecords \div 2)] :
        /\ \A idx \in 1..(RefineRecords - 1) :
               \/ g[idx + 1] = g[idx]
               \/ g[idx] # 0 /\ g[idx + 1] \in {0, g[idx] + 1}
        /\ g[1] \in {0, 1}
        /\ \A idx \in 1..RefineRecords :
               g[idx] # 0 =>
                   Cardinality({j \in 1..RefineRecords : g[j] = g[idx]}) >= 2}

LabelledCollections ==
    {[idx \in 1..RefineRecords |->
         Question(TRUE, TRUE, SomeText,
                  IF g[idx] = 0 THEN None ELSE SimGroupLabel(g[idx]))]
     : g \in BlockLabelings}

\* The state after run_stage1 returned, with a cross-encoder loaded
InitRefine ==
    /\ questions \in LabelledCollections
    /\ cross_encoder = TRUE
    /\ pc = "stage1"
    /\ groups_split = 0
    /\ groups_kept = 0
    /\ before = << >>
    /\ observed = NotObserved
    /\ invocations = << >>

\* --refine-threshold values of these runs
RefineSizeThresholds == {1, RefineRecords \div 2}

\* run_stage2 with the scores answered by one deterministic scorer
Refine ==
    /\ pc = "stage1"
    /\ cross_encoder
    /\ pc' = "stage2"
    /\ before' = Labels(questions)
    /\ UNCHANGED <<cross_encoder, invocations>>
    /\ \E refine_threshold \in RefineSizeThresholds :
       \E refine_cross_encoder_threshold \in Thresholds :
       \E large_groups \in {find_large_groups(questions, refine_threshold)} :
       \E fine \in FineOutcomes(large_groups) :
       \E scorer \in NearScorers :
       \E r \in {run_stage2(questions, large_groups, fine, scorer,
                            refine_cross_encoder_threshold)} :
           /\ questions' = r.questions
           /\ groups_split' = r.groups_split
           /\ groups_kept' = r.groups_kept
           /\ observed' = [refine_threshold |-> refine_threshold,
                           refine_cross_encoder_threshold |->
                               refine_cross_encoder_threshold,
                           fine |-> fine,
                           score |-> [pair \in Stage2Pairs(large_groups, fine)
                                         |-> scorer[pair]],
                           scorer |-> scorer]

\* The member sets that were embedded and clustered by the first run
FirstRunGroups ==
    {members \in {{j \in DOMAIN before : before[j] = before[idx]}
                  : idx \in {i \in DOMAIN before : Truthy(before[i])}} :
        Cardinality(members) > observed.refine_threshold /\ Cardinality(members) >= 4}

\* The fine fit_predict answers of the second run: the same answer for the
\* same texts, any answer for a set of texts not clustered before.
SameFineOutcomes(large_groups) ==
    IF \A indices \in ClusteredGroups(large_groups) : Range(indices) \in FirstRunGroups
    THEN {[idx \in UNION {Range(indices) : indices \in ClusteredGroups(large_groups)}
              |-> observed.fine[idx]]}
    ELSE {fine \in FineOutcomes(large_groups) :
             \A indices \in ClusteredGroups(large_groups) :
                 Range(indices) \in FirstRunGroups
                     => \A idx \in Range(indices) : fine[idx] = observed.fine[idx]}

\* run_stage2 once more on its own output: same parameters, same scorer
RefineAgain ==
    /\ pc = "stage2"
    /\ "scorer" \in DOMAIN observed
    /\ pc' = "stage2again"
    /\ before' = Labels(questions)
    /\ UNCHANGED <<cross_encoder, invocations>>
    /\ \E large_groups \in {find_large_groups(questions, observed.refine_threshold)} :
       \E fine \in SameFineOutcomes(large_groups) :
       \E r \in {run_stage2(questions, large_groups, fine, observed.scorer,
                            observed.refine_cross_encoder_threshold)} :
           /\ questions' = r.questions
           /\ groups_split' = r.groups_split
           /\ groups_kept' = r.groups_kept
           /\ observed' = [refine_threshold |-> observed.refine_threshold,
                           refine_cross_encoder_threshold |->
                               observed.refine_cross_encoder_threshold,
                           fine |-> fine,
                           score |-> [pair \in Stage2Pairs(large_groups, fine)
                                         |-> observed.scorer[pair]],
                           scorer |-> observed.scorer]

NextRefine == Refine \/ RefineAgain

SpecRefine == InitRefine /\ [][NextRefine]_vars

\* ------------------------------------------ run_stage2 on a group beyond the
\* pairing window: one group of WindowRecords records whose fine density
\* pass yields a cluster of WindowRecords - 2 members and a cluster of 2.
WindowRecords == 54

\* The first records of the 2-member fine cluster: at the start, after the
\* first record, in the middle and at the end of the group
SmallClusterStarts == {1, 2, WindowRecords \div 2, WindowRecords - 1}

\* The fine fit_predict answers: records at and at + 1 form cluster 1, the
\* others cluster 0
WindowFineOutcomes ==
    {[idx \in 1..WindowRecords |-> IF idx \in {at, at + 1} THEN 1 ELSE 0]
     : at \in SmallClusterStarts}

\* Distances between two records that a scorer may favour: neighbours, the
\* width of the window, and beyond it
FavouredDistances == {1, PairWindow, PairWindow + 1, WindowRecords - 1}

\* A deterministic pairwise scorer over all record pairs: the top score for
\* two records whose distance is in distances, the bottom score otherwise
DistanceScorer(distances) ==
    [pair \in {p \in (1..WindowRecords) \X (1..WindowRecords) : p[1] < p[2]} |->
        IF (pair[2] - pair[1]) \in distances THEN MaxScore ELSE 0]

\* The state after run_stage1 put every record in one group
InitWindow ==
    /\ questions = [idx \in 1..WindowRecords |->
                       Question(TRUE, TRUE, SomeText, SimGroupLabel(1))]
    /\ cross_encoder = TRUE
    /\ pc = "stage1"
    /\ groups_split = 0
    /\ groups_kept = 0
    /\ before = << >>
    /\ observed = NotObserved
    /\ invocations = << >>

\* run_stage2 on the large group; the pairs handed to the scorer are kept
RefineWindow ==
    /\ pc = "stage1"
    /\ cross_encoder
    /\ pc' = "stage2"
    /\ before' = Labels(questions)
    /\ UNCHANGED <<cross_encoder, invocations>>
    /\ \E refine_threshold \in {NumRecords} :
       \E refine_cross_encoder_threshold \in Thresholds :
       \E large_groups \in {find_large_groups(questions, refine_threshold)} :
       \E fine \in WindowFineOutcomes :
       \E distances \in SUBSET FavouredDistances :
       \E scorer \in {DistanceScorer(distances)} :
       \E r \in {run_stage2(questions, large_groups, fine, scorer,
                            refine_cross_encoder_threshold)} :
           /\ questions' = r.questions
           /\ groups_split' = r.groups_split
           /\ groups_kept' = r.groups_kept
           /\ observed' = [refine_threshold |-> refine_threshold,
                           refine_cross_encoder_threshold |->
                               refine_cross_encoder_threshold,
                           fine |-> fine,
                           distances |-> distances,
                           scored |-> Stage2Pairs(large_groups, fine)]

NextWindow == RefineWindow

SpecWindow == InitWindow /\ [][NextWindow]_vars

\* ------------------------------------------ run_stage2 on two large groups
\* Collections of PairRecords records that Stage 1 left with two groups of
\* at least 4 consecutive records each.
PairRecords == 9

\* Group numbers per record (0 for no group): sim_group_1 from the first
\* record on, then sim_group_2, then at most one record without a group
PairLabelings ==
    {g \in [1..PairRecords -> 0..2] :
        /\ g[1] = 1
        /\ \A idx \in 1..(PairRecords - 1) :
               \/ g[idx + 1] = g[idx]
               \/ g[idx] = 1 /\ g[idx + 1] = 2
               \/ g[idx] = 2 /\ g[idx + 1] = 0 /\ idx + 1 = PairRecords
        /\ \A n \in 1..2 : Cardinality({idx \in 1..PairRecords : g[idx] = n}) >= 4}

PairCollections ==
    {[idx \in 1..PairRecords |->
         Question(TRUE, TRUE, SomeText,
                  IF g[idx] = 0 THEN None ELSE SimGroupLabel(g[idx]))]
     : g \in PairLabelings}

\* The state after run_stage1 returned, with a cross-encoder loaded
InitPair ==
    /\ questions \in PairCollections
    /\ cross_encoder = TRUE
    /\ pc = "stage1"
    /\ groups_split = 0
    /\ groups_kept = 0
    /\ before = << >>
    /\ observed = NotObserved
    /\ invocations = << >>

\* --refine-threshold values of these runs: both groups are selected, or
\* only a group of more than 4
PairSizeThresholds == {3, 4}

\* The fine fit_predict answers of these runs: per clustered group no
\* cluster at all, or clusters of consecutive members
PairFineOutcomes(large_groups) ==
    {fine \in FineOutcomes(large_groups) :
        \A indices \in ClusteredGroups(large_groups) :
            \A k \in 1..(Len(indices) - 1) :
                /\ fine[indices[k]] <= fine[indices[k + 1]]
                /\ fine[indices[k]] = -1 => fine[indices[k + 1]] = -1}

\* Distances between two records that a scorer of these runs may favour
NearDistances == {1, 2, 3}

\* The orders in which n groups can be processed
Orders(n) == {order \in [1..n -> 1..n] : \A i, j \in 1..n : order[i] = order[j] => i = j}

\* large_groups.items() taken in another order
Reordered(large_groups, order) ==
    [k \in 1..Len(large_groups) |-> large_groups[order[k]]]

\* run_stage2 with its loop over the selected groups taken in any order
RefineInOrder ==
    /\ pc = "stage1"
    /\ cross_encoder
    /\ pc' = "stage2"
    /\ before' = Labels(questions)
    /\ UNCHANGED <<cross_encoder, invocations>>
    /\ \E refine_threshold \in PairSizeThresholds :
       \E refine_cross_encoder_threshold \in Thresholds :
       \E large_groups \in {find_large_groups(questions, refine_threshold)} :
       \E fine \in PairFineOutcomes(large_groups) :
       \E distances \in SUBSET NearDistances :
       \E order \in Orders(Len(large_groups)) :
       \E r \in {run_stage2(questions, Reordered(large_groups, order), fine,
                            DistanceScorer(distances),
                            refine_cross_encoder_threshold)} :
           /\ questions' = r.questions
           /\ groups_split' = r.groups_split
           /\ groups_kept' = r.groups_kept
           /\ observed' = [refine_threshold |-> refine_threshold,
                           refine_cross_encoder_threshold |->
                               refine_cross_encoder_threshold,
                           fine |-> fine,
                           distances |-> distances,
                           order |-> order]

NextOrder == RefineInOrder

SpecOrder == InitPair /\ [][NextOrder]_vars

\* A collaborator raises in Stage 1 on a loaded collection, or in Stage 2 on
\* a collection that Stage 1 left with two large groups
InitUnits == Init \/ InitPair

NextUnits == Stage1Fails \/ Stage2Fails

SpecUnits == InitUnits /\ [][NextUnits]_vars

\* ------------------------------------------------- one call of run_stage2
\* run_stage2 called once on a collection labelled by Stage 1, the scores
\* answered by one deterministic scorer and the fine clusters, if any, made
\* of consecutive members: no cluster at all (cut = 0), or the members up to
\* record cut in one cluster and the later ones in the next
OnceFineOutcomes(large_groups) ==
    LET groups == ClusteredGroups(large_groups)
    IN  {[idx \in UNION {Range(indices) : indices \in groups} |->
             IF cut = 0 THEN -1
             ELSE IF idx <= cut THEN 0
             ELSE IF \E indices \in groups :
                        /\ idx \in Range(indices)
                        /\ \E other \in Range(indices) : other <= cut
                  THEN 1
                  ELSE 0]
         : cut \in 0..RefineRecords}

RefineOnce ==
    /\ pc = "stage1"
    /\ cross_encoder
    /\ pc' = "stage2"
    /\ before' = Labels(questions)
    /\ UNCHANGED <<cross_encoder, invocations>>
    /\ \E refine_threshold \in RefineSizeThresholds :
       \E refine_cross_encoder_threshold \in Thresholds :
       \E large_groups \in {find_large_groups(questions, refine_threshold)} :
       \E fine \in OnceFineOutcomes(large_groups) :
       \E scorer \in NearScorers :
           /\ observed' = [refine_threshold |-> refine_threshold,
                           refine_cross_encoder_threshold |->
                               refine_cross_encoder_threshold,
                           fine |-> fine,
                           score |-> [pair \in Stage2Pairs(large_groups, fine)
                                         |-> scorer[pair]],
                           scorer |-> scorer]
           /\ \E r \in {run_stage2(questions, large_groups, fine, scorer,
                                    refine_cross_encoder_threshold)} :
                  /\ questions' = r.questions
                  /\ groups_split' = r.groups_split
                  /\ groups_kept' = r.groups_kept

NextOnce == RefineOnce

\* What main() sees of RefineOnce: the call is made and it returns.
Stage2Returns == pc = "stage1" /\ cross_encoder /\ pc' = "stage2"

\* main() goes on to call run_stage2 when a cross-encoder is loaded and
\* refinement is not switched off, and a call that has begun keeps running:
\* the interpreter does not stop between main()'s statements.
SpecOnce == InitRefine /\ [][NextOnce]_vars /\ WF_pc(Stage2Returns)

\* ------------------------------------- concurrent refinement of the groups
\* The body of run_stage2's loop run by one invocation per selected group,
\* the invocations interleaving statement by statement on the shared list.
\* "if split_result and len(set(split_result.values())) > 1"
IsSplit(split_result) ==
    /\ ~split_result.is_none
    /\ DOMAIN split_result.map # {}
    /\ NumValues(split_result.map) > 1

\* Variant: the clearing loop runs over every record of the list.
ClearLoopEveryRecord(qs, indices) == Ascending(DOMAIN qs)

\* "for idx in indices": the records the clearing loop runs over
ClearLoop(qs, indices) == indices

\* One invocation per selected group is started; the collaborators are
\* deterministic, their answers are fixed here.
Dispatch ==
    /\ pc = "stage1"
    /\ cross_encoder
    /\ pc' = "refining"
    /\ before' = Labels(questions)
    /\ UNCHANGED <<questions, cross_encoder, groups_split, groups_kept>>
    /\ \E refine_threshold \in PairSizeThresholds :
       \E refine_cross_encoder_threshold \in Thresholds :
       \E large_groups \in {find_large_groups(questions, refine_threshold)} :
       \E fine \in PairFineOutcomes(large_groups) :
       \E distances \in SUBSET NearDistances :
           /\ observed' = [refine_threshold |-> refine_threshold,
                           refine_cross_encoder_threshold |->
                               refine_cross_encoder_threshold,
                           fine |-> fine,
                           distances |-> distances]
           /\ invocations' = [w \in 1..Len(large_groups) |->
                                 [group_id |-> large_groups[w].group_id,
                                  indices |-> large_groups[w].indices,
                                  at |-> "split",
                                  split_result |-> NoSplit,
                                  written |-> {},
                                  cursor |-> 1]]

\* "split_result = try_split_group(...)" and the test that follows
InvocationSplits(w, split_result) ==
    /\ invocations' = [invocations EXCEPT
                          ![w].split_result = split_result,
                          ![w].at = IF IsSplit(split_result) THEN "write" ELSE "done"]
    /\ UNCHANGED <<questions, cross_encoder, pc, groups_split, groups_kept, before,
                   observed>>

Splits ==
    /\ pc = "refining"
    /\ \E w \in DOMAIN invocations :
           /\ invocations[w].at = "split"
           /\ InvocationSplits(w,
                  try_split_group(invocations[w].indices,
                      GroupClusterLabels(invocations[w].indices, observed.fine),
                      DistanceScorer(observed.distances),
                      observed.refine_cross_encoder_threshold))

\* One iteration of "for idx, sub_group_num in split_result.items()"; the
\* order of the items is left open.
Writes ==
    /\ pc = "refining"
    /\ \E w \in DOMAIN invocations :
           /\ invocations[w].at = "write"
           /\ \E idx \in DOMAIN invocations[w].split_result.map \ invocations[w].written :
                  /\ questions' = [questions EXCEPT ![idx].similarity_group_id =
                                       SubLabel(invocations[w].group_id,
                                                invocations[w].split_result.map[idx])]
                  /\ invocations' = [invocations EXCEPT
                         ![w].written = invocations[w].written \cup {idx},
                         ![w].at = IF invocations[w].written \cup {idx}
                                        = DOMAIN invocations[w].split_result.map
                                   THEN "clear" ELSE "write"]
    /\ UNCHANGED <<cross_encoder, pc, groups_split, groups_kept, before, observed>>

\* One iteration of "for idx in indices: if idx not in split_result: ..."
InvocationClears(w, loop) ==
    /\ questions' = IF loop[invocations[w].cursor] \in DOMAIN invocations[w].split_result.map
                    THEN questions
                    ELSE [questions EXCEPT
                             ![loop[invocations[w].cursor]].similarity_group_id = None]
    /\ invocations' = [invocations EXCEPT
                          ![w].cursor = invocations[w].cursor + 1,
                          ![w].at = IF invocations[w].cursor = Len(loop)
                                    THEN "done" ELSE "clear"]
    /\ UNCHANGED <<cross_encoder, pc, groups_split, groups_kept, before, observed>>

Clears ==
    /\ pc = "refining"
    /\ \E w \in DOMAIN invocations :
           /\ invocations[w].at = "clear"
           /\ InvocationClears(w, ClearLoop(questions, invocations[w].indices))

NextConcurrent == Dispatch \/ Splits \/ Writes \/ Clears

SpecConcurrent == InitPair /\ [][NextConcurrent]_vars

\* ================================================================== claims
\* The labels in use: the truthy similarity_group_id values
LabelsInUse(qs) == {qs[idx].similarity_group_id : idx \in DOMAIN qs} \ {None, ""}

\* The records carrying a label
MembersOf(qs, label) == {idx \in DOMAIN qs : qs[idx].similarity_group_id = label}

\* The groups: the member sets of the labels in use
Groups(qs) == {MembersOf(qs, label) : label \in LabelsInUse(qs)}

\* The group of a record (empty when it has no label)
GroupOf(qs, idx) ==
    IF Truthy(qs[idx].similarity_group_id)
    THEN MembersOf(qs, qs[idx].similarity_group_id) ELSE {}

\* ---- Stage 1, stated on the collaborators' answers kept by ObserveStage1
AfterObservedStage1 == pc = "stage1" /\ observed # NotObserved

\* The records of the candidate clusters of the observed fit_predict answer
CandidateClusters ==
    {{observed.encoded[i] : i \in {j \in 1..Len(observed.cluster_labels) :
                                     observed.cluster_labels[j] = c}}
     : c \in Range(observed.cluster_labels) \ {-1}}

\* The observed score of the pair {a, b} is at or above threshold t
Passes(a, b, t) ==
    LET pair == IF a < b THEN <<a, b>> ELSE <<b, a>>
    IN  pair \in DOMAIN observed.score /\ observed.score[pair] >= t

\* The records joined to those of S by a path of passing pairs inside cluster
RECURSIVE Reach(_, _, _)
Reach(S, cluster, t) ==
    LET next == S \cup {b \in cluster : \E a \in S : Passes(a, b, t)}
    IN  IF next = S THEN S ELSE Reach(next, cluster, t)

\* The verified groups of the observed answers at threshold t: with a
\* cross-encoder the path-connected classes of >= 2 records of each candidate
\* cluster, without one the candidate clusters of >= 2 records.
VerifiedGroups(t) ==
    IF cross_encoder
    THEN {g \in UNION {{Reach({a}, cluster, t) : a \in cluster}
                       : cluster \in CandidateClusters} : Cardinality(g) >= 2}
    ELSE {cluster \in CandidateClusters : Cardinality(cluster) >= 2}

\* C1: after Stage 1, and again after Stage 2, every label in use (every
\* non-empty similarity_group_id) is carried by at least 2 records.
C1_MinimumGroupSize ==
    pc \in {"stage1", "stage2"} =>
        \A label \in LabelsInUse(questions) :
            Cardinality(MembersOf(questions, label)) >= 2

\* C1 witness: Stage 2 has split a group, clearing one member and leaving
\* sub-labels in use.
C1_Witness ==
    /\ pc = "stage2"
    /\ groups_split = 1
    /\ LabelsInUse(questions) # {}
    /\ \E idx \in DOMAIN questions :
           Truthy(before[idx]) /\ questions[idx].similarity_group_id = None

\* C2: after Stage 1 each label identifies exactly one verified group: the
\* member sets of the labels are exactly the verified groups, no two labels
\* have the same or overlapping member sets, and so two records carry the same
\* label iff they are in the same verified group.
C2_LabelIsOneVerifiedGroup ==
    AfterObservedStage1 =>
        /\ Groups(questions) = VerifiedGroups(observed.cross_encoder_threshold)
        /\ \A l1, l2 \in LabelsInUse(questions) :
               l1 # l2 => MembersOf(questions, l1) \cap MembersOf(questions, l2) = {}
        /\ \A a, b \in DOMAIN questions :
               (Truthy(questions[a].similarity_group_id)
                  /\ questions[a].similarity_group_id = questions[b].similarity_group_id)
               <=> \E g \in VerifiedGroups(observed.cross_encoder_threshold) :
                       a \in g /\ b \in g

\* C2 witness: two components of two different candidate clusters, labelled
\* differently.
C2_Witness ==
    /\ AfterObservedStage1 /\ cross_encoder
    /\ Cardinality(LabelsInUse(questions)) = 2
    /\ \E c1, c2 \in CandidateClusters :
           /\ c1 # c2
           /\ \E g1, g2 \in Groups(questions) : g1 \subseteq c1 /\ g2 \subseteq c2

\* C3: with verification, two members of a candidate cluster end in the same
\* verified group iff a path of pairs scoring >= threshold joins them (a
\* failing direct pair does not separate them), and a member with no passing
\* pair stays unassigned.
C3_GroupedIffPathOfPassingPairs ==
    (AfterObservedStage1 /\ cross_encoder) =>
        \A cluster \in CandidateClusters : \A a \in cluster :
            /\ \A b \in cluster \ {a} :
                   (Truthy(questions[a].similarity_group_id)
                      /\ questions[a].similarity_group_id = questions[b].similarity_group_id)
                   <=> b \in Reach({a}, cluster, observed.cross_encoder_threshold)
            /\ (\A b \in cluster \ {a} : ~Passes(a, b, observed.cross_encoder_threshold))
                   => questions[a].similarity_group_id = None

\* C3 witness: A-B and B-C pass (one of them exactly at the threshold), A-C
\* fails, and A, B, C carry one label.
C3_Witness ==
    /\ AfterObservedStage1 /\ cross_encoder
    /\ \E cluster \in CandidateClusters : \E a, b, c \in cluster :
           /\ a # b /\ b # c /\ a # c
           /\ Passes(a, b, observed.cross_encoder_threshold)
           /\ observed.score[IF b < c THEN <<b, c>> ELSE <<c, b>>]
                = observed.cross_encoder_threshold
           /\ ~Passes(a, c, observed.cross_encoder_threshold)
           /\ Truthy(questions[a].similarity_group_id)
           /\ questions[a].similarity_group_id = questions[c].similarity_group_id

\* The questions with every label replaced by label
Relabelled(qs, label) == [idx \in DOMAIN qs |-> [qs[idx] EXCEPT !.similarity_group_id = label]]

\* run_stage1 on qs with the observed answers and threshold t
Stage1Again(qs, t) ==
    ApplyAssignments(qs, find_similarity_groups(qs, observed.cluster_labels,
                                                observed.score, t, cross_encoder))

\* C4: Stage 1 fully recomputes the assignment: a record outside every
\* verified group of this run has no label, whatever it carried before, and
\* the labels do not depend on the labels present before the call.
C4_Stage1Recomputes ==
    AfterObservedStage1 =>
        /\ \A idx \in DOMAIN questions :
               idx \notin UNION VerifiedGroups(observed.cross_encoder_threshold)
                   => questions[idx].similarity_group_id = None
        /\ \A label \in {None, "", "sim_group_1", "sim_group_2_sub1"} :
               Labels(Stage1Again(Relabelled(questions, label),
                                  observed.cross_encoder_threshold))
                   = Labels(questions)

\* C4 witness: a record that came in with a label of an earlier run (a _sub
\* label) and is in no verified group has lost it, while a group was found.
C4_Witness ==
    /\ AfterObservedStage1
    /\ LabelsInUse(questions) # {}
    /\ \E idx \in DOMAIN questions :
           /\ observed.labels_before[idx] = "sim_group_1_sub1"
           /\ questions[idx].similarity_group_id = None

\* C5: a second Stage 1 run on the output of the first, with the same
\* collaborator answers, encodes the same records and yields the same
\* partition (the same member sets).
C5_Stage1Idempotent ==
    AfterObservedStage1 =>
        /\ original_indices(questions) = observed.encoded
        /\ Groups(Stage1Again(questions, observed.cross_encoder_threshold))
             = Groups(questions)

\* C5 witness: the first run found a group among records that now carry
\* labels which the second run meets.
C5_Witness ==
    /\ AfterObservedStage1
    /\ \E g \in Groups(questions) : Cardinality(g) >= 3
    /\ \E idx \in DOMAIN questions :
           idx \in Range(observed.encoded) /\ questions[idx].similarity_group_id = None

\* The groups Stage 1 produces from the observed answers at threshold t
Stage1GroupsAt(t) == Groups(Stage1Again(questions, t))

\* C6: for fixed candidate clusters and scores, raising the Stage 1 threshold
\* never grows a group: for t1 <= t2 every group produced with t2 is a subset
\* of some group produced with t1.
C6_Stage1ThresholdMonotone ==
    AfterObservedStage1 =>
        \A t1, t2 \in Thresholds :
            t1 <= t2 => \A g \in Stage1GroupsAt(t2) :
                            \E h \in Stage1GroupsAt(t1) : g \subseteq h

\* C6 witness: the run's threshold t2 produced a group that is strictly
\* smaller than the group a lower threshold t1 produces.
C6_Witness ==
    /\ AfterObservedStage1
    /\ Groups(questions) = Stage1GroupsAt(observed.cross_encoder_threshold)
    /\ \E t1 \in Thresholds :
           /\ t1 < observed.cross_encoder_threshold
           /\ \E g \in Groups(questions) : \E h \in Stage1GroupsAt(t1) :
                  g \subseteq h /\ g # h
\* ---- Stage 2, stated on the labels at entry and the answers kept by
\* ---- ObserveStage2
AfterObservedStage2 == pc = "stage2" /\ observed # NotObserved

\* The questions as they were at entry of run_stage2
QuestionsBefore ==
    [idx \in DOMAIN questions |->
        [questions[idx] EXCEPT !.similarity_group_id = before[idx]]]

\* The labels run_stage2 leaves when it is run from the entry state with the
\* observed refine_threshold, fine clusters and scores, at split threshold t
RefinedAt(t) ==
    Labels(run_stage2(QuestionsBefore,
                      find_large_groups(QuestionsBefore, observed.refine_threshold),
                      observed.fine, observed.score, t).questions)

\* The number of records carrying the label of idx (0 when it has no label)
GroupSize(labels, idx) ==
    IF Truthy(labels[idx])
    THEN Cardinality({j \in DOMAIN labels : labels[j] = labels[idx]})
    ELSE 0

\* C7 as stated: for t1 <= t2 every record labelled after refine with t2 is in
\* a group no larger than its group after refine with t1.
C7_AsStated ==
    AfterObservedStage2 =>
        \A t1, t2 \in Thresholds :
            t1 < t2 =>
                \A r1 \in {RefinedAt(t1)} : \A r2 \in {RefinedAt(t2)} :
                    \A idx \in DOMAIN questions :
                        Truthy(r2[idx]) => GroupSize(r2, idx) <= GroupSize(r1, idx)

\* C7 amended: for t1 <= t2 every record labelled after refine with t2 is in a
\* group no larger than its group after refine with t1, unless its group is
\* kept unchanged with t2 although it is split with t1.
C7_MonotoneUnlessKept ==
    AfterObservedStage2 =>
        \A t1, t2 \in Thresholds :
            t1 < t2 =>
                \A r1 \in {RefinedAt(t1)} : \A r2 \in {RefinedAt(t2)} :
                    \A idx \in DOMAIN questions :
                        Truthy(r2[idx])
                            => \/ GroupSize(r2, idx) <= GroupSize(r1, idx)
                               \/ r2[idx] = before[idx] /\ r1[idx] # before[idx]

\* C7 witness: the run's threshold t2 split a group and left a record in a
\* sub-group strictly smaller than the sub-group a lower threshold t1 gives it.
C7_Witness ==
    /\ AfterObservedStage2
    /\ \E t1 \in Thresholds :
           /\ t1 < observed.refine_cross_encoder_threshold
           /\ \E r1 \in {RefinedAt(t1)} : \E idx \in DOMAIN questions :
                  /\ Truthy(questions[idx].similarity_group_id)
                  /\ questions[idx].similarity_group_id # before[idx]
                  /\ r1[idx] # before[idx]
                  /\ GroupSize(Labels(questions), idx) < GroupSize(r1, idx)
    /\ Labels(questions) = RefinedAt(observed.refine_cross_encoder_threshold)

\* C8: refinement never expands or merges groups: an unlabelled record stays
\* unlabelled; a record that carried L carries L, some L_sub<n>, or no label;
\* two records sharing a label afterwards shared a label before.
C8_RefinementNeverExpands ==
    pc = "stage2" =>
        /\ \A idx \in DOMAIN questions :
               IF Truthy(before[idx])
               THEN \/ questions[idx].similarity_group_id = before[idx]
                    \/ questions[idx].similarity_group_id = None
                    \/ \E n \in 1..NumRecords :
                           questions[idx].similarity_group_id = before[idx] \o "_sub" \o ToString(n)
               ELSE questions[idx].similarity_group_id = before[idx]
        /\ \A a, b \in DOMAIN questions :
               (Truthy(questions[a].similarity_group_id)
                  /\ questions[a].similarity_group_id = questions[b].similarity_group_id)
               => (Truthy(before[a]) /\ before[a] = before[b])

\* C8 witness: of one group, two records now share a _sub label, another
\* record carries a different _sub label, and the record that was unlabelled
\* is still unlabelled.
C8_Witness ==
    /\ pc = "stage2"
    /\ \E a, b, c, d \in DOMAIN questions :
           /\ a # b /\ before[a] = before[c] /\ Truthy(before[a])
           /\ questions[a].similarity_group_id = before[a] \o "_sub1"
           /\ questions[b].similarity_group_id = questions[a].similarity_group_id
           /\ questions[c].similarity_group_id = before[a] \o "_sub2"
           /\ before[d] = None /\ questions[d].similarity_group_id = None

\* The number of records that carried the label of idx at entry of run_stage2
SizeBefore(idx) == Cardinality({j \in DOMAIN before : before[j] = before[idx]})

\* C9: run_stage2 leaves unchanged the label of every unlabelled record and of
\* every record whose group has at most size_threshold members.
C9_SmallGroupsUntouched ==
    AfterObservedStage2 =>
        \A idx \in DOMAIN questions :
            (~Truthy(before[idx]) \/ SizeBefore(idx) <= observed.refine_threshold)
                => questions[idx].similarity_group_id = before[idx]

\* C9 witness: a group of exactly size_threshold members kept its label in a
\* run that selected another group.
C9_Witness ==
    /\ AfterObservedStage2
    /\ groups_split + groups_kept >= 1
    /\ \E idx \in DOMAIN questions :
           /\ Truthy(before[idx])
           /\ SizeBefore(idx) = observed.refine_threshold
           /\ questions[idx].similarity_group_id = before[idx]

\* What try_split_group returned for the group that carried label at entry
SplitResultOf(label) ==
    LET indices == GroupIndices(QuestionsBefore, label)
    IN  IF Len(indices) <= observed.refine_threshold \/ Len(indices) < 4 THEN NoSplit
        ELSE try_split_group(indices, GroupClusterLabels(indices, observed.fine),
                             observed.score, observed.refine_cross_encoder_threshold)

\* C10: when a selected group with label L is split, afterwards no record
\* carries L, each member placed in sub-group n carries L_sub<n>, each member
\* placed in no sub-group has no label, and at least 2 sub-labels of L exist.
C10_SplitRewritesEveryMember ==
    AfterObservedStage2 =>
        \A label \in LabelsInUse(QuestionsBefore) :
            \A split_result \in {SplitResultOf(label)} :
                ~split_result.is_none =>
                    /\ \A idx \in DOMAIN questions :
                           questions[idx].similarity_group_id # label
                    /\ \A idx \in MembersOf(QuestionsBefore, label) :
                           questions[idx].similarity_group_id
                             = IF idx \in DOMAIN split_result.map
                               THEN label \o "_sub" \o ToString(split_result.map[idx])
                               ELSE None
                    /\ Cardinality({questions[idx].similarity_group_id :
                                      idx \in MembersOf(QuestionsBefore, label)}
                                   \ {None}) >= 2

\* C10 witness: a group was split and one of its members, placed in no
\* sub-group, has lost its label.
C10_Witness ==
    /\ AfterObservedStage2
    /\ \E label \in LabelsInUse(QuestionsBefore) :
           \E split_result \in {SplitResultOf(label)} :
               /\ ~split_result.is_none
               /\ \E idx \in MembersOf(QuestionsBefore, label) :
                      /\ idx \notin DOMAIN split_result.map
                      /\ questions[idx].similarity_group_id = None

\* The labels of the groups run_stage2 selected: more than refine_threshold
\* members at entry
SelectedLabels ==
    {label \in LabelsInUse(QuestionsBefore) :
        Cardinality(MembersOf(QuestionsBefore, label)) > observed.refine_threshold}

\* C11: a selected group with fewer than 4 members, or whose split attempt
\* yields fewer than 2 distinct sub-groups (density path or fallback), is
\* kept unchanged: every member still carries the original label, and the
\* stage completes.
C11_KeptGroupUnchanged ==
    AfterObservedStage2 =>
        \A label \in SelectedLabels :
            \A split_result \in {SplitResultOf(label)} :
                (\/ Cardinality(MembersOf(QuestionsBefore, label)) < 4
                 \/ split_result.is_none
                 \/ NumValues(split_result.map) < 2)
                => \A idx \in MembersOf(QuestionsBefore, label) :
                       questions[idx].similarity_group_id = label

\* C11 witness: a selected group of at least 4 members with 2 fine clusters,
\* of which a scored pair fell below the threshold so that fewer than 2
\* sub-groups were confirmed, still carries its label.
C11_Witness ==
    /\ AfterObservedStage2
    /\ \E label \in SelectedLabels :
           /\ Cardinality(MembersOf(QuestionsBefore, label)) >= 4
           /\ Cardinality({observed.fine[idx] : idx \in MembersOf(QuestionsBefore, label)}
                          \ {-1}) >= 2
           /\ \E pair \in DOMAIN observed.score :
                  observed.score[pair] < observed.refine_cross_encoder_threshold
           /\ SplitResultOf(label).is_none
           /\ \A idx \in MembersOf(QuestionsBefore, label) :
                  questions[idx].similarity_group_id = label

\* The group that carried label at entry went to the hierarchical fallback:
\* at least 4 members and at most one non-noise fine cluster label
FellBack(label) ==
    /\ Cardinality(MembersOf(QuestionsBefore, label)) >= 4
    /\ Cardinality({observed.fine[idx] : idx \in MembersOf(QuestionsBefore, label)}
                   \ {-1}) <= 1

\* The numbers n of the labels L_sub<n> carried by the former members of L
SubNumbers(label) ==
    {n \in 1..NumRecords :
        \E idx \in MembersOf(QuestionsBefore, label) :
            questions[idx].similarity_group_id = label \o "_sub" \o ToString(n)}

AfterRefine == pc \in {"stage2", "stage2again"} /\ observed # NotObserved

\* The selected groups of which some member no longer carries the label
RewrittenLabels ==
    {label \in SelectedLabels :
        \E idx \in MembersOf(QuestionsBefore, label) :
            questions[idx].similarity_group_id # label}

\* C13: run_stage2 counts every selected group exactly once: groups_split +
\* groups_kept is the number of selected groups, groups_split the number of
\* selected groups whose labels were rewritten, groups_kept the number left
\* unchanged (groups of fewer than 4 members included).
C13_CountsEverySelectedGroup ==
    AfterRefine =>
        /\ groups_split + groups_kept = Cardinality(SelectedLabels)
        /\ groups_split = Cardinality(RewrittenLabels)
        /\ groups_kept = Cardinality(SelectedLabels \ RewrittenLabels)

\* C13 witness: of the selected groups one was split and another, of fewer
\* than 4 members, was kept, and each was counted.
C13_Witness ==
    /\ AfterRefine
    /\ groups_split = 1
    /\ groups_kept = 1
    /\ \E label \in SelectedLabels \ RewrittenLabels :
           Cardinality(MembersOf(QuestionsBefore, label)) < 4

\* ---- Stage 1 on records without a usable text payload
\* run_stage1 has returned or raised (it never changes success, data, text)
Stage1Ended == pc \in {"stage1", "raised"}

\* The records with a usable text payload: successful, with data, and with
\* a text that is non-empty after stripping whitespace
EligibleRecords ==
    {idx \in DOMAIN questions :
        /\ questions[idx].success
        /\ questions[idx].data
        /\ questions[idx].question_text # Null
        /\ strip(questions[idx].question_text) # << >>}

\* C14 as stated: with fewer than 2 eligible records (the empty collection
\* included) Stage 1 does not raise and every record ends with no label.
C14_AsStated ==
    (Stage1Ended /\ Cardinality(EligibleRecords) < 2) =>
        /\ pc = "stage1"
        /\ \A idx \in DOMAIN questions : questions[idx].similarity_group_id = None

\* C15 as stated: a record without a usable text payload is never passed to
\* the embedding provider or the pairwise scorer, ends Stage 1 with no
\* label, and never makes Stage 1 raise.
C15_AsStated ==
    Stage1Ended =>
        \A idx \in DOMAIN questions \ EligibleRecords :
            /\ pc = "stage1"
            /\ idx \notin Range(observed.encoded)
            /\ \A pair \in DOMAIN observed.score : idx # pair[1] /\ idx # pair[2]
            /\ questions[idx].similarity_group_id = None

\* ---- Stage 1 without verification
\* The candidate clusters of 2 or more records
AcceptedClusters == {cluster \in CandidateClusters : Cardinality(cluster) >= 2}

\* C17: with verification disabled, Stage 1 makes no pairwise-scorer call,
\* every candidate cluster of 2 or more records is exactly the member set of
\* one label, and every other record (noise included) has no label.
C17_UnverifiedAcceptsClusters ==
    (AfterObservedStage1 /\ ~cross_encoder) =>
        /\ DOMAIN observed.score = {}
        /\ \A cluster \in AcceptedClusters :
               \E label \in LabelsInUse(questions) :
                   MembersOf(questions, label) = cluster
        /\ \A idx \in DOMAIN questions \ UNION AcceptedClusters :
               questions[idx].similarity_group_id = None

\* C17 witness: without verification two candidate clusters became two
\* groups and a noise point among the encoded records stayed unlabelled.
C17_Witness ==
    /\ AfterObservedStage1
    /\ ~cross_encoder
    /\ Cardinality(AcceptedClusters) = 2
    /\ Cardinality(LabelsInUse(questions)) = 2
    /\ \E i \in 1..Len(observed.cluster_labels) :
           /\ observed.cluster_labels[i] = -1
           /\ questions[observed.encoded[i]].similarity_group_id = None

\* ---- collaborator failures
\* A collaborator has raised in the stage that ran last
Failed == "failed" \in DOMAIN observed

\* The positions of the selected groups run_stage2 had not finished when the
\* collaborator raised: the group being split and the later ones
UnfinishedMembers ==
    LET large_groups == find_large_groups(QuestionsBefore, observed.refine_threshold)
    IN  UNION {Range(large_groups[j].indices) : j \in observed.at..Len(large_groups)}

\* C16: a failure of the embedding provider or the pairwise scorer ends the
\* enclosing stage with that failure: the stage never reports completion,
\* the group being processed and the later ones are not relabelled, and
\* nothing runs after the failure.
C16_FailurePropagates ==
    /\ [](Failed =>
            /\ pc = "raised"
            /\ observed.stage = "stage1" => Labels(questions) = before
            /\ observed.stage = "stage2" =>
                   \A idx \in UnfinishedMembers :
                       questions[idx].similarity_group_id = before[idx])
    /\ [][pc # "raised"]_vars

\* C16 witness: the pairwise scorer raised while run_stage2 was splitting a
\* group; main() is stopped and the group still carries its label.
C16_Witness ==
    /\ Failed
    /\ observed.stage = "stage2"
    /\ observed.failed = "predict"
    /\ pc = "raised"
    /\ UnfinishedMembers # {}
    /\ \A idx \in UnfinishedMembers : questions[idx].similarity_group_id = before[idx]

\* ---- run_stage2 applied to its own output
\* C18 as stated: a second run_stage2 on the output of the first, with the
\* same thresholds, the same pairwise scores and the same fine clustering of
\* every group the first run clustered, changes no record's label.
C18_AsStated == pc = "stage2again" => Labels(questions) = before

\* ---- when the hierarchical fallback is used
\* All pairs of the records that carried label at entry
AllPairsOf(label) ==
    {pair \in MembersOf(QuestionsBefore, label) \X MembersOf(QuestionsBefore, label) :
        pair[1] < pair[2]}

\* The fallback ran on the group: the scorer was given every pair of its
\* members (the density path never scores a pair across two fine clusters)
FallbackInvoked(label) == AllPairsOf(label) \subseteq DOMAIN observed.score

\* C19: for a selected group the hierarchical fallback is invoked exactly
\* when the group has at least 4 members and the fine pass yields at most one
\* non-noise cluster label; when the fine pass yields 2 or more clusters and
\* fewer than 2 sub-groups are confirmed, the fallback is not invoked and
\* every member keeps the original label.
C19_FallbackOnlyWithoutFineClusters ==
    AfterObservedStage2 =>
        \A label \in SelectedLabels :
            /\ FallbackInvoked(label) <=> FellBack(label)
            /\ \A split_result \in {SplitResultOf(label)} :
                   (/\ Cardinality(MembersOf(QuestionsBefore, label)) >= 4
                    /\ ~FellBack(label)
                    /\ split_result.is_none)
                   => /\ ~FallbackInvoked(label)
                      /\ \A idx \in MembersOf(QuestionsBefore, label) :
                             questions[idx].similarity_group_id = label

\* C19 witness: a selected group without fine clusters was sent to the
\* fallback, every pair of its members was scored, and the fallback split it.
C19_Witness ==
    /\ AfterObservedStage2
    /\ \E label \in SelectedLabels :
           /\ FellBack(label)
           /\ FallbackInvoked(label)
           /\ ~SplitResultOf(label).is_none
           /\ \E idx \in MembersOf(QuestionsBefore, label) :
                  questions[idx].similarity_group_id # label

\* ---- the pairing window of Stage 2
\* run_stage2 has run on the large group and the scored pairs were kept
WindowObserved == pc = "stage2" /\ "scored" \in DOMAIN observed

\* The position of every record within its fine cluster, in cluster order
ClusterPositions ==
    [idx \in DOMAIN observed.fine |->
        Cardinality({other \in DOMAIN observed.fine :
                        other <= idx /\ observed.fine[other] = observed.fine[idx]})]

\* Records a < b are members of one fine cluster at most PairWindow
\* positions apart
WithinWindow(a, b, positions) ==
    /\ a < b
    /\ observed.fine[a] # -1
    /\ observed.fine[a] = observed.fine[b]
    /\ positions[b] - positions[a] <= PairWindow

\* Per record, the records it forms a qualifying pair with: a pair within
\* the window whose score is at or above the split threshold
QualifyingPairs(positions, scorer) ==
    [a \in DOMAIN observed.fine |->
        {b \in DOMAIN observed.fine :
            \/ /\ WithinWindow(a, b, positions)
               /\ scorer[<<a, b>>] >= observed.refine_cross_encoder_threshold
            \/ /\ WithinWindow(b, a, positions)
               /\ scorer[<<b, a>>] >= observed.refine_cross_encoder_threshold}]

\* The records joined to those of S by a chain of qualifying pairs
RECURSIVE Chained(_, _)
Chained(S, qualifying) ==
    LET next == S \cup UNION {qualifying[a] : a \in S}
    IN  IF next = S THEN S ELSE Chained(next, qualifying)

\* The labels written by the run: the sub-group labels
SubGroupLabels == LabelsInUse(questions) \ LabelsInUse(QuestionsBefore)

\* C20: in the bounded verification pass only pairs of members of one fine
\* cluster at most 50 positions apart (cluster order) are scored, each
\* member is the first of at most 50 scored pairs, and two records carry the
\* same sub-group label only if a chain of qualifying pairs, each within the
\* window, joins them.
C20_PairsWithinWindow ==
    WindowObserved =>
        \A positions \in {ClusterPositions} :
            /\ \A pair \in observed.scored : WithinWindow(pair[1], pair[2], positions)
            /\ \A a \in DOMAIN observed.fine :
                   Cardinality({pair \in observed.scored : pair[1] = a}) <= PairWindow
            /\ \A qualifying \in {QualifyingPairs(positions,
                                        DistanceScorer(observed.distances))} :
                   \A label \in SubGroupLabels :
                       MembersOf(questions, label)
                           \subseteq Chained({Min(MembersOf(questions, label))}, qualifying)

\* C20 witness: two members of one fine cluster more than 50 positions
\* apart, whose pair was not scored, carry the same sub-group label.
C20_Witness ==
    /\ WindowObserved
    /\ \E a, b \in DOMAIN observed.fine :
           /\ a < b
           /\ observed.fine[a] = observed.fine[b]
           /\ ClusterPositions[b] - ClusterPositions[a] > PairWindow
           /\ <<a, b>> \notin observed.scored
           /\ questions[a].similarity_group_id \in SubGroupLabels
           /\ questions[a].similarity_group_id = questions[b].similarity_group_id

\* ---- the order of the groups in run_stage2
\* run_stage2 has run with its groups in the observed order
OrderObserved == pc = "stage2" /\ "order" \in DOMAIN observed

\* The labels run_stage2 writes when it takes the groups in the order of
\* large_groups.items(), on the observed collaborator answers
InSourceOrder ==
    Labels(run_stage2(QuestionsBefore,
                      find_large_groups(QuestionsBefore, observed.refine_threshold),
                      observed.fine, DistanceScorer(observed.distances),
                      observed.refine_cross_encoder_threshold).questions)

\* C21: for fixed collaborator answers the labels after run_stage2 are the
\* same for every order in which the selected groups are processed.
C21_OrderInsensitive == OrderObserved => Labels(questions) = InSourceOrder

\* C21 witness: two groups were processed in the reverse of the source's
\* order and both were split.
C21_Witness ==
    /\ OrderObserved
    /\ DOMAIN observed.order = 1..2
    /\ observed.order[1] = 2
    /\ groups_split = 2
    /\ \E i, j \in DOMAIN questions :
           /\ before[i] # before[j]
           /\ questions[i].similarity_group_id \notin {before[i], None}
           /\ questions[j].similarity_group_id \notin {before[j], None}

\* ---- concurrent refinement
\* Every invocation has finished
AllDone ==
    /\ pc = "refining"
    /\ \A w \in DOMAIN invocations : invocations[w].at = "done"

\* C22: when the selected groups (disjoint member sets) are refined by
\* concurrent invocations whose statements interleave arbitrarily, the final
\* labels are those of the sequential run_stage2, and a step of an
\* invocation changes no record outside the members of its group.
C22_ConcurrentAsSequential ==
    /\ [](AllDone => Labels(questions) = InSourceOrder)
    /\ [][\A idx \in DOMAIN questions :
              questions'[idx] # questions[idx] =>
                  \E w \in DOMAIN invocations :
                      /\ invocations'[w] # invocations[w]
                      /\ idx \in Range(invocations[w].indices)]_vars

\* C22 witness: two invocations have finished, each split its group, and
\* one of them cleared a member left outside every sub-group.
C22_Witness ==
    /\ AllDone
    /\ DOMAIN invocations = 1..2
    /\ \A w \in DOMAIN invocations : IsSplit(invocations[w].split_result)
    /\ \E idx \in DOMAIN questions :
           before[idx] # None /\ questions[idx].similarity_group_id = None

\* ---- units of work and collaborator failures
\* The selected groups of the failed run_stage2, in the order of the loop
FailedRunGroups == find_large_groups(QuestionsBefore, observed.refine_threshold)

\* The label record idx of group label carries once the group's loop
\* iteration has ended with split_result
RefinedLabel(label, split_result, idx) ==
    IF split_result.is_none \/ NumValues(split_result.map) < 2 THEN label
    ELSE IF idx \in DOMAIN split_result.map
    THEN label \o "_sub" \o ToString(split_result.map[idx])
    ELSE None

\* C23: a collaborator failure leaves no unit of work partially relabelled.
\* After a failure in Stage 1 every record has the label it had at entry;
\* after a failure in Stage 2 while group G is refined, the members of G and
\* of the later groups have their labels of entry, and the groups processed
\* earlier were clustered and their members have their refined labels.
C23_NoPartialRelabel ==
    Failed =>
        /\ observed.stage = "stage1" => Labels(questions) = before
        /\ observed.stage = "stage2" =>
               \A large_groups \in {FailedRunGroups} :
               \A j \in 1..Len(large_groups) :
                   IF j >= observed.at
                   THEN \A idx \in Range(large_groups[j].indices) :
                            questions[idx].similarity_group_id = before[idx]
                   ELSE /\ Len(large_groups[j].indices) >= 4 =>
                               Range(large_groups[j].indices) \subseteq DOMAIN observed.fine
                        /\ \A split_result \in {SplitResultOf(large_groups[j].group_id)} :
                           \A idx \in Range(large_groups[j].indices) :
                               questions[idx].similarity_group_id
                                   = RefinedLabel(large_groups[j].group_id,
                                                  split_result, idx)

\* C23 witness: the scorer raised while the second group was being refined;
\* the first group has been split and keeps its sub-labels, the second group
\* has its labels of entry.
C23_Witness ==
    /\ Failed
    /\ observed.stage = "stage2"
    /\ observed.at = 2
    /\ \E idx \in Range(FailedRunGroups[1].indices) :
           questions[idx].similarity_group_id \notin {before[idx], None}
    /\ \A idx \in Range(FailedRunGroups[2].indices) :
           questions[idx].similarity_group_id = before[idx]

\* ---- run_stage2 is a single pass
\* The first run_stage2 of the run has returned
AfterFirstRefine == pc = "stage2" /\ "scorer" \in DOMAIN observed

\* The labels in use after the call that were not in use at its start
CreatedLabels == LabelsInUse(questions) \ LabelsInUse(QuestionsBefore)

\* C24: run_stage2 is a single pass that terminates.  The groups it examines
\* are those selected from the labels at the start of the call, each once;
\* a record of a group not selected keeps its label, a record of a selected
\* group ends with its label of entry, no label, or that label extended by
\* one "_sub<n>", so no sub-group created in the call is split in the call;
\* and the call returns.
C24_SinglePass ==
    /\ [](AfterFirstRefine =>
            /\ groups_split + groups_kept = Cardinality(SelectedLabels)
            /\ \A idx \in DOMAIN questions :
                   IF before[idx] \in SelectedLabels
                   THEN questions[idx].similarity_group_id
                            \in {before[idx], None}
                                 \cup {before[idx] \o "_sub" \o ToString(n) :
                                          n \in 1..RefineRecords}
                   ELSE questions[idx].similarity_group_id = before[idx])
    /\ (pc = "stage1") ~> (pc = "stage2")

\* C24 witness: run_stage2 has returned and a sub-group it created has more
\* than refine_threshold members.
C24_Witness ==
    /\ AfterFirstRefine
    /\ \E label \in CreatedLabels :
           Cardinality(MembersOf(questions, label)) > observed.refine_threshold
====
